---- MODULE Spec2Model ----
(***************************************************************************)
(* Nutrition analyzer: the read-through cache in front of the Edamam       *)
(* nutrition-details API, in its two variants:                             *)
(*   "backend"  src/backend/main.py  async, upsert, stored expires_at      *)
(*   "root"     src/main.py          sync, insert_one, created_at filter   *)
(* A string is a sequence of one-character strings; a list of ingredient   *)
(* lines is a sequence of such strings.                                    *)
(***************************************************************************)
EXTENDS Integers, Sequences, FiniteSets, TLC

VARIABLES
    variant,        \* which of the two programs is deployed
    credentials,    \* EDAMAM_APP_ID and EDAMAM_APP_KEY are both set
    db,             \* "none" (db is None) or "connected"
    now,            \* the wall clock (datetime.utcnow / datetime.now(utc))
    analyzercache,  \* the collection db["analyzercache"], in insertion order
    req             \* the requests: each one's position and locals

vars == <<variant, credentials, db, now, analyzercache, req>>

(***************************** bounds **************************************)
MaxRequests == 3
MaxTime == 2

\* CACHE_TTL_SECONDS as configured through the environment. The clock counts
\* in units of it: one tick is one TTL (3600 s by default).
CACHE_TTL_SECONDS == 1

Requests == 1..MaxRequests

(************************ strings and the key ******************************)
IsSpace(c) == c \in {" ", "\t", "\n"}

\* Letter case swapped instead of lowered.
Lower_swapped(c) == CASE c = "A" -> "a" [] c = "a" -> "A" [] c = "B" -> "b" [] c = "b" -> "B" [] OTHER -> c

\* str.lower, a character at a time.
Lower(c) == CASE c = "A" -> "a" [] c = "B" -> "b" [] OTHER -> c

lower(s) == [i \in 1..Len(s) |-> Lower(s[i])]

RECURSIVE lstrip(_)
lstrip(s) == IF s = <<>> THEN s
             ELSE IF IsSpace(Head(s)) THEN lstrip(Tail(s)) ELSE s

RECURSIVE rstrip(_)
rstrip(s) == IF s = <<>> THEN s
             ELSE IF IsSpace(s[Len(s)]) THEN rstrip(SubSeq(s, 1, Len(s) - 1)) ELSE s

strip(s) == rstrip(lstrip(s))

\* The first whitespace-free word of s, s having no leading whitespace.
RECURSIVE FirstWord(_)
FirstWord(s) == IF s = <<>> \/ IsSpace(Head(s)) THEN <<>>
                ELSE <<Head(s)>> \o FirstWord(Tail(s))

\* str.split(): the maximal whitespace-free words of s.
RECURSIVE split(_)
split(s) == LET t == lstrip(s) IN
            IF t = <<>> THEN <<>>
            ELSE <<FirstWord(t)>> \o split(SubSeq(t, Len(FirstWord(t)) + 1, Len(t)))

\* sep.join(parts)
RECURSIVE join(_, _)
join(sep, parts) == IF parts = <<>> THEN <<>>
                    ELSE IF Len(parts) = 1 THEN parts[1]
                    ELSE parts[1] \o sep \o join(sep, Tail(parts))

\* "if s and s.strip()": the entry is kept.
Kept(s) == s # <<>> /\ strip(s) # <<>>

RECURSIVE FilterKept(_)
FilterKept(ingredients) ==
    IF ingredients = <<>> THEN <<>>
    ELSE IF Kept(Head(ingredients))
         THEN <<Head(ingredients)>> \o FilterKept(Tail(ingredients))
         ELSE FilterKept(Tail(ingredients))

\* backend: [" ".join(s.strip().lower().split()) for s in ingredients if s and s.strip()]
norm_ingredients(ingredients) ==
    LET kept == FilterKept(ingredients) IN
    [i \in 1..Len(kept) |-> join(<<" ">>, split(lower(strip(kept[i]))))]

\* root: [i.strip().lower() for i in payload.ingredients if i and i.strip()]
normalized(ingredients) ==
    LET kept == FilterKept(ingredients) IN
    [i \in 1..Len(kept) |-> lower(strip(kept[i]))]

\* hashlib.sha256(joined.encode("utf-8")).hexdigest(): a digest that names its
\* preimage, two digests being equal exactly when the preimages are.
sha256_hexdigest(joined) == [sha256 |-> joined]

\* backend make_hash
make_hash(ingredients) == sha256_hexdigest(join(<<"\n">>, norm_ingredients(ingredients)))

\* root: joined = "\n".join(normalized); ingredients_hash = sha256(...)
ingredients_hash(ingredients) == sha256_hexdigest(join(<<"\n">>, normalized(ingredients)))

(**************************** values ***************************************)
None == "None"

\* The payloads the provider may answer with (opaque JSON documents).
Payloads == {"p1", "p2"}

\* The error statuses the provider may answer with.
ErrStatuses == {403}

NoTime == -1
NoHash == [sha256 |-> <<"-">>]

\* The ingredient lists requests are made with.
Inputs == {
    <<>>,                                   \* no line at all
    << <<" ">>, <<>> >>,                    \* only blank lines
    << <<" ", "A">>, <<>> >>,               \* a padded line in capitals, and a blank one
    << <<"b">> >> }

\* What the provider's endpoint answers when it is reached: a status and the
\* body parsed as JSON (None: the body is not JSON).
Responses ==
    [status : {200}, json : Payloads \cup {None}]
        \cup [status : ErrStatuses, json : {"error-body"}]

\* raise HTTPException(status_code=status, ...)
HTTPException(status) ==
    [cache |-> "none", status |-> status, data |-> None, raised |-> "HTTPException"]

\* Any other exception leaves the handler: the framework answers 500.
UnhandledException ==
    [cache |-> "none", status |-> 500, data |-> None, raised |-> "Exception"]

\* return AnalyzeResponse(cache=..., ingredients_hash=..., data=...)
AnalyzeResponse(cache, data) ==
    [cache |-> cache, status |-> 200, data |-> data, raised |-> "none"]

NoResult == [cache |-> "none", status |-> 0, data |-> None, raised |-> "none"]

IdleRequest ==
    [pc |-> "idle", ingredients |-> <<>>, hash |-> NoHash, now |-> NoTime,
     cached |-> None, status |-> 0, data |-> None, result |-> NoResult,
     \* history, read by the properties only
     after |-> {}, creds |-> FALSE, calls |-> 0, reads |-> 0, writes |-> 0, readOk |-> FALSE,
     seen |-> {}, checkNow |-> NoTime]

\* The requests that have ended having written an entry under this key.
WroteBefore(hash) ==
    {q \in Requests : req[q].pc = "done" /\ req[q].writes > 0 /\ req[q].hash = hash}

(**************************** the store ************************************)
Range(seq) == {seq[i] : i \in 1..Len(seq)}

\* The documents of the collection with this ingredients_hash.
DocsOf(coll, hash) == {d \in Range(coll) : d.ingredients_hash = hash}

\* How a call to the store ends: it answers, or it raises (the server is
\* unreachable, the connection drops). With db None no call is made.
StoreOutcomes == {"answers", "raises"}

(***************************** Init ****************************************)
Init ==
    /\ variant \in {"backend", "root"}
    /\ credentials \in BOOLEAN
    /\ db \in {"none", "connected"}
    /\ now = 0
    /\ analyzercache = <<>>
    /\ req = [r \in Requests |-> IdleRequest]

\* Requests are interchangeable: they arrive in the order of their numbers.
MayBegin(r) == req[r].pc = "idle" /\ (IF r = 1 THEN TRUE ELSE req[r - 1].pc # "idle")

\* A failed provider call tried once more instead of ending the request.
Finish_retried(r, rec, result) ==
    req' = [req EXCEPT ![r] =
              [rec EXCEPT !.pc = IF rec.calls = 1 /\ result.raised # "none" THEN "call" ELSE "done",
                          !.result = result]]

\* The request ends: it returns its response or raises.
Finish(r, rec, result) ==
    req' = [req EXCEPT ![r] = [rec EXCEPT !.pc = "done", !.result = result]]

(************************ backend: analyze *********************************)
\* find_one found no document (or was not made, or raised).
NoDoc == [ingredients_hash |-> NoHash]

\* analyze line 111: the request has no ingredient line left after filtering.
NothingToAnalyze(ingredients) ==
    ingredients = <<>> \/ Len(norm_ingredients(ingredients)) = 0

\* The comparison of line 54 turned round.
Expired_turned(doc, t) == doc.expires_at # NoTime /\ doc.expires_at > t

\* fetch_from_cache line 54: the entry's stored expiry has passed.
Expired(doc, t) == doc.expires_at # NoTime /\ doc.expires_at < t

\* fetch_from_cache, lines 50-56, on the document find_one returned.
CachedData(doc, t) ==
    IF doc = NoDoc THEN None
    ELSE IF Expired(doc, t) THEN None
    ELSE doc.data

\* call_edamam lines 84-85.
CredentialsMissing == ~credentials

\* The lookup with a sliding expiry: a hit moves the entry's expires_at on.
AnalyzeLookup_sliding(r) ==
    /\ variant = "backend"
    /\ MayBegin(r)
    /\ \E ingredients \in Inputs :
         LET began == [req[r] EXCEPT !.ingredients = ingredients, !.creds = credentials] IN
         IF NothingToAnalyze(ingredients)
         THEN Finish(r, began, HTTPException(400)) /\ UNCHANGED analyzercache
         ELSE
         \E outcome \in (IF db = "none" THEN {"no call"} ELSE StoreOutcomes) :
           LET hash == make_hash(ingredients)
               found == IF outcome = "answers" THEN DocsOf(analyzercache, hash) ELSE {}
               rec == [began EXCEPT !.hash = hash, !.after = WroteBefore(hash),
                                    !.reads = IF db = "none" THEN @ ELSE @ + 1,
                                    !.readOk = (outcome = "answers"),
                                    !.seen = found,
                                    !.checkNow = now]
           IN \E doc \in (IF found = {} THEN {NoDoc} ELSE found) :
                LET cached == CachedData(doc, now) IN
                IF cached # None
                THEN /\ Finish(r, [rec EXCEPT !.cached = cached], AnalyzeResponse("hit", cached))
                     /\ analyzercache' = [i \in 1..Len(analyzercache) |->
                            IF analyzercache[i].ingredients_hash = hash
                            THEN [analyzercache[i] EXCEPT !.expires_at = now + CACHE_TTL_SECONDS]
                            ELSE analyzercache[i]]
                ELSE /\ UNCHANGED analyzercache
                     /\ IF CredentialsMissing THEN Finish(r, rec, HTTPException(500))
                        ELSE req' = [req EXCEPT ![r] = [rec EXCEPT !.pc = "call"]]
    /\ UNCHANGED <<variant, credentials, db, now>>

\* analyze, lines 110-122, up to the provider request being sent:
\* validation, the key, fetch_from_cache (lines 44-58, the clock read right
\* after find_one answers) and call_edamam's credentials check (lines 84-85).
AnalyzeLookup(r) ==
    /\ variant = "backend"
    /\ MayBegin(r)
    /\ \E ingredients \in Inputs :
         LET began == [req[r] EXCEPT !.ingredients = ingredients, !.creds = credentials] IN
         IF NothingToAnalyze(ingredients) THEN Finish(r, began, HTTPException(400))
         ELSE
         \E outcome \in (IF db = "none" THEN {"no call"} ELSE StoreOutcomes) :
           LET hash == make_hash(ingredients)
               found == IF outcome = "answers" THEN DocsOf(analyzercache, hash) ELSE {}
               rec == [began EXCEPT !.hash = hash, !.after = WroteBefore(hash),
                                    !.reads = IF db = "none" THEN @ ELSE @ + 1,
                                    !.readOk = (outcome = "answers"),
                                    !.seen = found,
                                    !.checkNow = now]
           IN \E doc \in (IF found = {} THEN {NoDoc} ELSE found) :
                LET cached == CachedData(doc, now) IN
                IF cached # None
                THEN Finish(r, [rec EXCEPT !.cached = cached], AnalyzeResponse("hit", cached))
                ELSE IF CredentialsMissing THEN Finish(r, rec, HTTPException(500))
                ELSE req' = [req EXCEPT ![r] = [rec EXCEPT !.pc = "call"]]
    /\ UNCHANGED <<variant, credentials, db, now, analyzercache>>

\* Every upstream error answered as a 502.
ProviderError_as502(status) == HTTPException(502)

\* call_edamam line 100: the upstream status is the status of the error raised.
ProviderError(status) == HTTPException(status)

\* call_edamam lines 91-92: the POST fails below HTTP (connection, timeout);
\* httpx's exception is caught nowhere.
BackendTransportFailure == UnhandledException

\* The index of the first document of the collection with this hash (0: none).
FirstIndex(coll, hash) ==
    IF DocsOf(coll, hash) = {} THEN 0
    ELSE CHOOSE i \in 1..Len(coll) :
           /\ coll[i].ingredients_hash = hash
           /\ \A j \in 1..(i - 1) : coll[j].ingredients_hash # hash

\* The upsert with "data" left out of $set: an existing entry keeps its payload.
update_one_upsert_keeps_data(coll, hash, data, t) ==
    LET i == FirstIndex(coll, hash) IN
    IF i = 0
    THEN Append(coll, [ingredients_hash |-> hash, data |-> data, updated_at |-> t,
                       expires_at |-> t + CACHE_TTL_SECONDS, created_at |-> t])
    ELSE [coll EXCEPT ![i] = [@ EXCEPT !.updated_at = t,
                                       !.expires_at = t + CACHE_TTL_SECONDS]]

\* write_cache lines 66-78: update_one(..., upsert=True) at time t.
update_one_upsert(coll, hash, data, t) ==
    LET i == FirstIndex(coll, hash) IN
    IF i = 0
    THEN Append(coll, [ingredients_hash |-> hash, data |-> data, updated_at |-> t,
                       expires_at |-> t + CACHE_TTL_SECONDS, created_at |-> t])
    ELSE [coll EXCEPT ![i] = [@ EXCEPT !.data = data, !.updated_at = t,
                                       !.expires_at = t + CACHE_TTL_SECONDS]]

\* analyze, lines 122-125, when the provider's request ends: call_edamam lines
\* 91-101, then write_cache up to update_one being sent (lines 62-67: db is
\* None returns at once; otherwise now = utcnow() is read here, before the await).
AnalyzeProviderAnswer(r) ==
    /\ variant = "backend"
    /\ req[r].pc = "call"
    /\ LET rec == [req[r] EXCEPT !.calls = @ + 1] IN
       \/ Finish(r, rec, BackendTransportFailure)
       \/ \E resp \in Responses :
            LET got == [rec EXCEPT !.status = resp.status] IN
            IF resp.status >= 400 THEN Finish(r, got, ProviderError(resp.status))
            ELSE IF resp.json = None THEN Finish(r, got, UnhandledException)
            ELSE IF db = "none"
            THEN Finish(r, [got EXCEPT !.data = resp.json], AnalyzeResponse("miss", resp.json))
            ELSE req' = [req EXCEPT ![r] =
                           [got EXCEPT !.pc = "write", !.data = resp.json, !.now = now]]
    /\ UNCHANGED <<variant, credentials, db, now, analyzercache>>

\* write_cache lines 67-80 and analyze line 127: update_one reaches the store,
\* carrying the now read before it was sent, or raises; either way MISS.
AnalyzeWriteCache(r) ==
    /\ variant = "backend"
    /\ req[r].pc = "write"
    /\ \E outcome \in StoreOutcomes :
         IF outcome = "answers"
         THEN /\ analyzercache' =
                   update_one_upsert(analyzercache, req[r].hash, req[r].data, req[r].now)
              /\ Finish(r, [req[r] EXCEPT !.writes = @ + 1], AnalyzeResponse("miss", req[r].data))
         ELSE /\ UNCHANGED analyzercache
              /\ Finish(r, req[r], AnalyzeResponse("miss", req[r].data))
    /\ UNCHANGED <<variant, credentials, db, now>>

(********************** root: analyze_nutrition ****************************)
\* line 147: ttl_cutoff = now - timedelta(seconds=ttl_seconds)
ttl_cutoff(t) == t - CACHE_TTL_SECONDS

\* lines 150-153: the find_one filter.
MatchesFilter(doc, hash, cutoff) ==
    doc.ingredients_hash = hash /\ doc.created_at >= cutoff

\* analyze_nutrition, lines 130-156, up to the provider request being sent:
\* credentials, validation, the key, now, and the lookup. find_one returns a
\* matching document; which one, when several match, the query does not say.
AnalyzeNutritionLookup(r) ==
    /\ variant = "root"
    /\ MayBegin(r)
    /\ \E ingredients \in Inputs :
         LET began == [req[r] EXCEPT !.ingredients = ingredients, !.creds = credentials] IN
         IF ~credentials THEN Finish(r, began, HTTPException(500))
         ELSE IF normalized(ingredients) = <<>> THEN Finish(r, began, HTTPException(400))
         ELSE
         LET hash == ingredients_hash(ingredients)
             keyed == [began EXCEPT !.hash = hash, !.after = WroteBefore(hash),
                                    !.now = now, !.checkNow = now]
         IN
         IF db = "none" THEN req' = [req EXCEPT ![r] = [keyed EXCEPT !.pc = "call"]]
         ELSE
         \E outcome \in StoreOutcomes :
           IF outcome = "raises"
           THEN Finish(r, [keyed EXCEPT !.reads = @ + 1], UnhandledException)
           ELSE
           LET matching == {d \in Range(analyzercache) : MatchesFilter(d, hash, ttl_cutoff(now))}
               rec == [keyed EXCEPT !.reads = @ + 1, !.readOk = TRUE,
                                    !.seen = DocsOf(analyzercache, hash)]
           IN IF matching = {}
              THEN req' = [req EXCEPT ![r] = [rec EXCEPT !.pc = "call"]]
              ELSE \E cached_doc \in matching :
                     Finish(r, [rec EXCEPT !.cached = cached_doc.result],
                            AnalyzeResponse("hit", cached_doc.result))
    /\ UNCHANGED <<variant, credentials, db, now, analyzercache>>

\* lines 165-166: a requests.RequestException becomes a 502.
RootTransportFailure == HTTPException(502)

\* lines 168-174: the upstream status is the status of the error raised.
ForwardedError(status) == HTTPException(status)

\* lines 180-187: insert_one(doc), created_at and updated_at the request's now.
insert_one(coll, ingredients, hash, data, t) ==
    Append(coll, [ingredients |-> ingredients, ingredients_hash |-> hash,
                  result |-> data, created_at |-> t, updated_at |-> t])

\* analyze_nutrition, lines 163-192, from the provider's answer on.
AnalyzeNutritionMiss(r) ==
    /\ variant = "root"
    /\ req[r].pc = "call"
    /\ LET rec == [req[r] EXCEPT !.calls = @ + 1] IN
       \/ /\ Finish(r, rec, RootTransportFailure)
          /\ UNCHANGED analyzercache
       \/ \E resp \in Responses :
            LET got == [rec EXCEPT !.status = resp.status] IN
            IF resp.status >= 400
            THEN Finish(r, got, ForwardedError(resp.status)) /\ UNCHANGED analyzercache
            ELSE IF resp.json = None
            THEN Finish(r, got, UnhandledException) /\ UNCHANGED analyzercache
            ELSE
            LET data == resp.json IN
            IF db = "none"
            THEN /\ UNCHANGED analyzercache
                 /\ Finish(r, [got EXCEPT !.data = data], AnalyzeResponse("miss", data))
            ELSE
            \E outcome \in StoreOutcomes :
              IF outcome = "raises"
              THEN /\ UNCHANGED analyzercache
                   /\ Finish(r, [got EXCEPT !.data = data], UnhandledException)
              ELSE /\ analyzercache' = insert_one(analyzercache, normalized(req[r].ingredients),
                                                  req[r].hash, data, req[r].now)
                   /\ Finish(r, [got EXCEPT !.data = data, !.writes = @ + 1],
                             AnalyzeResponse("miss", data))
    /\ UNCHANGED <<variant, credentials, db, now>>

(************************* the environment *********************************)
\* The clock advances while a request can still read it.
Tick ==
    /\ now < MaxTime
    /\ \E r \in Requests : req[r].pc # "done"
    /\ now' = now + 1
    /\ UNCHANGED <<variant, credentials, db, analyzercache, req>>

\* The service is redeployed between requests with the provider's credentials
\* set or unset in its environment (main.py lines 130-131, backend/main.py
\* lines 20-21); the collection outlives the process.
Redeploy ==
    /\ \A r \in Requests : req[r].pc \in {"idle", "done"}
    /\ \E r \in Requests : req[r].pc = "idle"
    /\ credentials' = ~credentials
    /\ UNCHANGED <<variant, db, now, analyzercache, req>>

Next ==
    \/ \E r \in Requests : AnalyzeLookup(r)
    \/ \E r \in Requests : AnalyzeProviderAnswer(r)
    \/ \E r \in Requests : AnalyzeWriteCache(r)
    \/ \E r \in Requests : AnalyzeNutritionLookup(r)
    \/ \E r \in Requests : AnalyzeNutritionMiss(r)
    \/ Tick
    \/ Redeploy

Spec == Init /\ [][Next]_vars

(*************************** properties ************************************)
Began(r) == req[r].pc # "idle"
Done(r) == req[r].pc = "done"
Hit(r) == Done(r) /\ req[r].result.cache = "hit"
Miss(r) == Done(r) /\ req[r].result.cache = "miss"
Wrote(r) == req[r].writes > 0

\* The list has a line that is not blank.
HasLine(ingredients) ==
    \E i \in 1..Len(ingredients) :
      \E j \in 1..Len(ingredients[i]) : ~IsSpace(ingredients[i][j])

\* The key the deployed variant derives for the list.
KeyOf(ingredients) ==
    IF variant = "backend" THEN make_hash(ingredients) ELSE ingredients_hash(ingredients)

\* The payload a document stores (backend: "data", root: "result").
PayloadOf(d) == IF variant = "backend" THEN d.data ELSE d.result

\* The time from which the entry written by request a counts its TTL: the now
\* its write carries (backend: expires_at = now + TTL; root: created_at = now).
AnchorOf(a) == req[a].now

\* Request c looked the key up, and was answered, after request a had ended as
\* a MISS that wrote, with the same list, no later than a's entry lives.
RoundTrip(a, c) ==
    /\ Miss(a) /\ Wrote(a)
    /\ Began(c) /\ a \in req[c].after
    /\ req[c].ingredients = req[a].ingredients
    /\ req[c].readOk
    /\ req[c].checkNow <= AnchorOf(a) + CACHE_TTL_SECONDS

\* C1 as stated: after a MISS that wrote, every later call with the identical
\* list, within the TTL and with the store answering, is a HIT with the payload
\* that MISS got from the provider, and does not call the provider.
C1_RoundTripSamePayload ==
    \A a \in Requests : \A c \in Requests :
      RoundTrip(a, c) =>
        /\ Hit(c)
        /\ req[c].calls = 0
        /\ req[c].result.data = req[a].result.data

\* The writes that can be the key's stored entry after request a's MISS: a's
\* own, and those of other requests for the key that had not ended when a
\* began (c, the reader, aside).
WritersSince(a, c) ==
    {a} \cup {b \in Requests \ {a, c} :
                /\ Miss(b) /\ Wrote(b)
                /\ req[b].hash = req[a].hash
                /\ b \notin req[a].after}

\* C1 as amended: a later call with the identical list, answered by the store
\* within the TTL of that MISS's write and of every write for the key by a
\* request that had not ended when that MISS began, is a HIT that does not call
\* the provider, with the payload of one of those writes.
C1_RoundTripStoredPayload ==
    \A a \in Requests : \A c \in Requests :
      ( /\ RoundTrip(a, c)
        /\ \A w \in WritersSince(a, c) :
             req[c].checkNow <= req[w].now + CACHE_TTL_SECONDS )
      => /\ Hit(c)
         /\ req[c].calls = 0
         /\ \E w \in WritersSince(a, c) : req[c].result.data = req[w].result.data

\* C1's case: a later call with the identical list is a HIT with the payload
\* of the earlier MISS, while another request has written the key as well.
C1_Witness ==
    \E a \in Requests : \E c \in Requests :
      /\ RoundTrip(a, c) /\ Hit(c) /\ req[c].result.data = req[a].result.data
      /\ WritersSince(a, c) # {a}

\* The expiry the deployed variant reads an entry by: the stored expires_at
\* (backend), created_at + TTL (root).
GoverningExpiry(d) ==
    IF variant = "backend" THEN d.expires_at ELSE d.created_at + CACHE_TTL_SECONDS

\* Every document request c's lookup saw is still in the collection, under
\* its key and with its created_at.
StillStored(c) ==
    \A d \in req[c].seen : \E e \in Range(analyzercache) :
      e.ingredients_hash = d.ingredients_hash /\ e.created_at = d.created_at

\* Request c went on to the provider: its call is in flight or was made.
WentToProvider(c) == req[c].pc = "call" \/ req[c].calls = 1

\* The miss path of request c: no HIT, one provider call, MISS when the
\* provider answered with a payload, the documents seen still stored.
TreatedAsAbsent(c) ==
    /\ ~Hit(c)
    /\ req[c].cached = None
    /\ WentToProvider(c)
    /\ (Done(c) /\ req[c].result.status = 200 => Miss(c))
    /\ StillStored(c)

C3_StoreUnavailableStillServes ==
    \A r \in Requests :
      ( /\ Began(r) /\ req[r].creds /\ HasLine(req[r].ingredients)
        /\ ~req[r].readOk /\ ~Wrote(r) )
      => /\ WentToProvider(r)
         /\ (Done(r) /\ req[r].data # None =>
               Miss(r) /\ req[r].result.data = req[r].data)

\* C4 as stated: the collection holds at most one document for each
\* ingredients_hash.
C4_AtMostOneEntryPerKey ==
    \A i \in 1..Len(analyzercache) : \A j \in 1..Len(analyzercache) :
      analyzercache[i].ingredients_hash = analyzercache[j].ingredients_hash => i = j

\* C5 as stated: a request whose list is empty or all blank ends with the
\* 400 client error, whatever the configuration, having made no cache read,
\* no cache write and no provider call.
C5_BlankInputRejected ==
    \A r \in Requests :
      (Began(r) /\ ~HasLine(req[r].ingredients)) =>
        /\ Done(r)
        /\ req[r].result.raised = "HTTPException" /\ req[r].result.status = 400
        /\ req[r].reads = 0 /\ req[r].writes = 0 /\ req[r].calls = 0

\* C6: a step in which the provider answers a request with an error status ends
\* the request with an error of that status and leaves the collection as it was;
\* such a request has written nothing.
C6_NoWriteOnProviderError ==
    [][\A r \in Requests :
         (req[r].pc = "call" /\ req'[r].status >= 400) =>
           /\ req'[r].pc = "done"
           /\ req'[r].result.raised = "HTTPException"
           /\ req'[r].result.status = req'[r].status
           /\ req'[r].result.cache = "none"
           /\ req'[r].writes = 0
           /\ analyzercache' = analyzercache]_vars

\* C6's case: a request the provider answered with 403 has ended.
C6_Witness ==
    \E r \in Requests :
      Done(r) /\ req[r].status = 403 /\ req[r].result.status = 403 /\ analyzercache # <<>>

\* C7 as stated: a request that got a payload from the provider returns it as
\* MISS, whether or not the cache write raised.
C7_WriteFailureSwallowed ==
    \A r \in Requests :
      (Done(r) /\ req[r].data # None) =>
        Miss(r) /\ req[r].result.data = req[r].data

\* The entry is not expired as C8 has it: now <= created_at + TTL, or a stored
\* expiry not yet reached.
Fresh(d, t) ==
    \/ t <= d.created_at + CACHE_TTL_SECONDS
    \/ (variant = "backend" /\ t <= d.expires_at)

\* C8 as stated: a request with a non-blank list that arrives while the store
\* holds a non-expired entry for its key, and whose store read does not raise,
\* returns HIT with a stored payload, whatever the credentials.
C8_FreshEntryHits ==
    [][\A r \in Requests :
         LET fresh == {d \in DocsOf(analyzercache, KeyOf(req'[r].ingredients)) : Fresh(d, now)} IN
         ( /\ req[r].pc = "idle" /\ req'[r].pc # "idle"
           /\ HasLine(req'[r].ingredients)
           /\ fresh # {}
           /\ ~(req'[r].reads > 0 /\ ~req'[r].readOk) )
         => /\ req'[r].pc = "done"
            /\ req'[r].result.cache = "hit"
            /\ req'[r].result.data \in {PayloadOf(d) : d \in fresh}]_vars

\* C9 as stated: a request whose provider call failed below HTTP (no response)
\* ends with the 502 gateway error and has written nothing.
C9_TransportFailureIs502 ==
    \A r \in Requests :
      (Done(r) /\ req[r].calls = 1 /\ req[r].status = 0) =>
        /\ req[r].result.raised = "HTTPException" /\ req[r].result.status = 502
        /\ req[r].writes = 0

\* C10 as stated: a write for a key that already has an entry leaves, as the
\* key's entries, documents with the new payload and an original created_at.
C10_UpsertPreservesCreatedAt ==
    [][\A r \in Requests :
         (req'[r].writes > req[r].writes /\ DocsOf(analyzercache, req[r].hash) # {}) =>
           \A e \in DocsOf(analyzercache', req[r].hash) :
             /\ PayloadOf(e) = req'[r].data
             /\ \E d \in DocsOf(analyzercache, req[r].hash) : e.created_at = d.created_at]_vars

(************************ the key deriver alone ****************************)
\* The lines the key deriver is applied to: blank ones, one word in either
\* case and with whitespace before or after it, two words apart by one or two
\* spaces, a tab or a newline, and other words.
KeyLines == {
    <<>>, <<" ">>,
    <<"a">>, <<"A">>, <<" ", "a">>, <<"a", " ">>,
    <<"b">>,
    <<"a", " ", "b">>, <<"a", " ", " ", "b">>, <<"a", "\t", "b">>, <<"a", "\n", "b">> }

MaxLines == 2

\* The ingredient lists of at most MaxLines of these lines.
KeyInputs == UNION {[1..n -> KeyLines] : n \in 0..MaxLines}

\* The two lists whose keys are compared.
KeyRequests == {1, 2}

\* The list as the deployed variant normalizes it (backend line 36, root line 138).
Normalize(ingredients) ==
    IF variant = "backend" THEN norm_ingredients(ingredients) ELSE normalized(ingredients)

NoKey ==
    [pc |-> "idle", ingredients |-> <<>>, normalized |-> <<>>, hash |-> NoHash,
     again |-> <<>>, againHash |-> NoHash]

KeyInit ==
    /\ variant \in {"backend", "root"}
    /\ credentials = TRUE
    /\ db = "none"
    /\ now = 0
    /\ analyzercache = <<>>
    /\ req = [r \in KeyRequests |-> NoKey]

\* backend analyze lines 111-114, root analyze_nutrition lines 138-143: the
\* list is rejected when nothing is left of it, and keyed otherwise.
DeriveKey(r) ==
    /\ MayBegin(r)
    /\ \E ingredients \in KeyInputs :
         LET rejected == IF variant = "backend" THEN NothingToAnalyze(ingredients)
                         ELSE normalized(ingredients) = <<>>
         IN req' = [req EXCEPT ![r] =
                      IF rejected
                      THEN [@ EXCEPT !.pc = "rejected", !.ingredients = ingredients]
                      ELSE [@ EXCEPT !.pc = "keyed", !.ingredients = ingredients,
                                     !.normalized = Normalize(ingredients),
                                     !.hash = KeyOf(ingredients)]]
    /\ UNCHANGED <<variant, credentials, db, now, analyzercache>>

\* The same lines applied to the list as normalized (the list sent to the
\* provider as "ingr", and stored by root as "ingredients").
Resubmit(r) ==
    /\ req[r].pc = "keyed"
    /\ req' = [req EXCEPT ![r] = [@ EXCEPT !.pc = "rekeyed",
                                           !.again = Normalize(req[r].normalized),
                                           !.againHash = KeyOf(req[r].normalized)]]
    /\ UNCHANGED <<variant, credentials, db, now, analyzercache>>

KeyNext ==
    \/ \E r \in KeyRequests : DeriveKey(r)
    \/ \E r \in KeyRequests : Resubmit(r)

KeySpec == KeyInit /\ [][KeyNext]_vars

Keyed(r) == req[r].pc \in {"keyed", "rekeyed"}

\* What is left of a list when letter case, leading and trailing whitespace,
\* the length of whitespace runs and blank entries are set aside: the words,
\* in lower case, of each line that has any.
RECURSIVE WordsOf(_)
WordsOf(list) ==
    IF list = <<>> THEN <<>>
    ELSE IF split(Head(list)) = <<>> THEN WordsOf(Tail(list))
    ELSE <<split(lower(Head(list)))>> \o WordsOf(Tail(list))

\* C11 as stated: two lists derive the same key exactly when they differ only
\* in letter case, leading or trailing whitespace, the length of internal
\* whitespace runs or blank entries; lists whose normalized sequences differ,
\* by order alone too, derive different keys.
C11_KeyEqualityUnderNormalization ==
    \A r \in KeyRequests : \A q \in KeyRequests :
      (Keyed(r) /\ Keyed(q)) =>
        ((WordsOf(req[r].ingredients) = WordsOf(req[q].ingredients))
           <=> (req[r].hash = req[q].hash))

\* C12: the list as normalized, normalized again, is the same list and
\* derives the same key.
C12_NormalizationIdempotent ==
    \A r \in KeyRequests :
      req[r].pc = "rekeyed" =>
        /\ req[r].again = req[r].normalized
        /\ req[r].againHash = req[r].hash

\* C12's case: a list that normalization changed has been normalized twice.
C12_Witness ==
    \E r \in KeyRequests :
      /\ req[r].pc = "rekeyed"
      /\ req[r].normalized # req[r].ingredients
      /\ req[r].again = req[r].normalized


(********************** concurrency and effects ****************************)
\* Request a has ended as a MISS that wrote the key, and request r, for the
\* same key, looked it up before a had ended: r did not see a's write.
WroteUnseenBy(a, r) ==
    /\ a # r
    /\ Miss(a) /\ Wrote(a)
    /\ req[a].hash = req[r].hash
    /\ a \notin req[r].after

\* The document of the key that was written last: the collection is kept in
\* insertion order, and the upsert rewrites the key's one document in place.
LastWritten(coll, hash) ==
    coll[CHOOSE i \in 1..Len(coll) :
           /\ coll[i].ingredients_hash = hash
           /\ \A j \in (i + 1)..Len(coll) : coll[j].ingredients_hash # hash]

\* C13 as stated: when the write of a request lands after that of a concurrent
\* miss for the same key, the key's entry holds the payload of this last write;
\* and a following call for the key, its lookup answered and the entry written
\* last not expired, is a HIT with exactly the payload written last.
C13_LastWriteWins ==
    [][\A r \in Requests :
         /\ ( /\ req'[r].writes > req[r].writes
              /\ \E a \in Requests : WroteUnseenBy(a, r) )
            => \A e \in DocsOf(analyzercache', req[r].hash) : PayloadOf(e) = req'[r].data
         /\ ( /\ req[r].pc = "idle" /\ req'[r].pc # "idle"
              /\ req'[r].creds /\ req'[r].readOk
              /\ \E a \in Requests : \E b \in Requests :
                   /\ Done(a) /\ Done(b)
                   /\ WroteUnseenBy(a, b) /\ WroteUnseenBy(b, a)
                   /\ req[a].hash = req'[r].hash
              /\ now <= GoverningExpiry(LastWritten(analyzercache, req'[r].hash)) )
            => /\ req'[r].pc = "done"
               /\ req'[r].result.cache = "hit"
               /\ req'[r].result.data = PayloadOf(LastWritten(analyzercache, req'[r].hash))]_vars


\* The provider's call of request r failed: no response, or an error status.
FailedCall(r) == req[r].calls = 1 /\ (req[r].status = 0 \/ req[r].status >= 400)

\* C14: a request calls the provider at most once; a MISS called it exactly
\* once; a request whose one call failed has ended with an error.
C14_NoAutomaticRetry ==
    \A r \in Requests :
      /\ req[r].calls <= 1
      /\ (Miss(r) => req[r].calls = 1)
      /\ (FailedCall(r) => Done(r) /\ req[r].result.raised # "none" /\ req[r].result.status >= 400)

\* C14's case: one request has ended MISS and another with the error of its
\* one failed provider call.
C14_Witness ==
    \E r \in Requests : \E q \in Requests :
      /\ Miss(r) /\ req[r].calls = 1
      /\ Done(q) /\ FailedCall(q) /\ req[q].result.raised # "none"

\* C15: the step in which a request returns HIT leaves the collection as it
\* was (payload, created_at, updated_at and expiry of every entry), and the
\* request has called the provider and written the store not once.
C15_HitHasNoEffects ==
    [][\A r \in Requests :
         (req[r].pc # "done" /\ req'[r].pc = "done" /\ req'[r].result.cache = "hit") =>
           /\ analyzercache' = analyzercache
           /\ req'[r].calls = 0
           /\ req'[r].writes = 0]_vars

\* C15's case: a request has returned HIT, and the entries its lookup saw are
\* in the collection as it saw them.
C15_Witness ==
    \E r \in Requests :
      /\ Hit(r) /\ req[r].seen # {}
      /\ \A d \in req[r].seen : d \in Range(analyzercache)


(****************************** termination ********************************)
\* Every outbound call in flight eventually returns, fails or times out: the
\* provider's POST (httpx timeout=30, requests timeout=20) and the store's
\* update_one.
FairSpec ==
    /\ Spec
    /\ \A r \in Requests :
         /\ WF_vars(AnalyzeProviderAnswer(r))
         /\ WF_vars(AnalyzeWriteCache(r))
         /\ WF_vars(AnalyzeNutritionMiss(r))

\* The request has ended with HIT, MISS or an error the handler raised as an
\* HTTPException (an exception no handler catches is an unclassified 500).
TerminalOutcome(r) ==
    /\ Done(r)
    /\ \/ req[r].result.cache \in {"hit", "miss"}
       \/ req[r].result.raised = "HTTPException"

\* C16 as stated: every request that has arrived eventually reaches a terminal
\* outcome that is HIT, MISS or a classified error, and keeps that one outcome.
C16_EveryRequestTerminatesClassified ==
    /\ \A r \in Requests : Began(r) ~> TerminalOutcome(r)
    /\ [][\A r \in Requests : Done(r) => req'[r] = req[r]]_vars


(***************************** timestamps **********************************)
\* C17 as stated: every entry write_cache has produced has
\* created_at <= updated_at and expires_at = updated_at + CACHE_TTL_SECONDS.
C17_UpsertTimestamps ==
    variant = "backend" =>
      \A i \in 1..Len(analyzercache) :
        /\ analyzercache[i].created_at <= analyzercache[i].updated_at
        /\ analyzercache[i].expires_at = analyzercache[i].updated_at + CACHE_TTL_SECONDS

====
